---------------------------- MODULE Spec2Model ----------------------------
(***************************************************************************)
(* A model of the chat-analyser repository: the RAG query pipeline         *)
(* (src/chatgpt_test.py, class RAGSystem) and the chat indexer             *)
(* (src/weviate_trial.py, class WhatsAppChatIndexer).                      *)
(*                                                                         *)
(* A Python str is a sequence of one-character strings, so that lower(),   *)
(* rstrip(), strip(), replace(), split(), startswith() and `in` are        *)
(* computed character by character as CPython computes them.  The fixed    *)
(* text of the prompt template is kept as whole fragments (one sequence    *)
(* element per literal piece of the f-string).  A float distance d is the  *)
(* integer 100*d; NaN is a float value of its own.                         *)
(***************************************************************************)
EXTENDS Integers, Sequences, FiniteSets, TLC

VARIABLES
    \* RAGSystem.is_informative_content: arguments, locals and return value
    ic_text, ic_query, ic_query_lower, ic_cleaned, ic_result, ic_pc,
    \* RAGSystem.retrieve_relevant_context: the Vector Store's response.objects,
    \* the arguments and the return value
    rc_response, rc_query, rc_limit, rc_threshold, rc_result, rc_pc,
    \* RAGSystem.generate_prompt: the arguments, the locals sorted_contexts and
    \* context_str, and the return value
    gp_query, gp_context, gp_sorted, gp_context_str, gp_prompt, gp_pc,
    \* one RAGSystem instance and its calls of query
    q_pc,               \* where the current call of query stands
    q_closed,           \* self.client has been closed
    q_user_query,       \* the argument of the current call
    q_relevant_docs,    \* the local relevant_docs
    q_prompt,           \* the local prompt
    q_pending,          \* what the try block left to return or raise
    q_outcome,          \* what the call returned or raised to its caller
    q_calls,            \* calls of query made on the instance
    q_near_vector,      \* near_vector queries issued by the current call
    q_prompts,          \* prompts built by the current call
    q_completions,      \* chat.completions.create requests of the current call
    q_closes,           \* client.close() calls of the current call
    q_used_closed,      \* a near_vector query was issued on the closed client
    q_retrieved,        \* retrieve_relevant_context returned to the current call
    \* WhatsAppChatIndexer.parse_message: the argument, whether the embedder
    \* answers, the local match.groups() and the return value
    pm_line, pm_encode_ok, pm_groups, pm_result, pm_pc,
    \* WhatsAppChatIndexer.index_chat
    ix_file,                \* the lines of the chat file, as the file iterator yields them
    ix_pos,                 \* the lines the loop has consumed
    ix_objects_to_insert,   \* the local objects_to_insert
    ix_total_processed,     \* the local total_processed
    ix_parsed,              \* per consumed line: what parse_message returned, or skipped
    ix_inserts,             \* the collection.data.insert calls made, in order
    ix_insert_many,         \* the collection.data.insert_many calls made
    ix_pc

icVars == <<ic_text, ic_query, ic_query_lower, ic_cleaned, ic_result, ic_pc>>
rcVars == <<rc_response, rc_query, rc_limit, rc_threshold, rc_result, rc_pc>>
gpVars == <<gp_query, gp_context, gp_sorted, gp_context_str, gp_prompt, gp_pc>>
qVars == <<q_pc, q_closed, q_user_query, q_relevant_docs, q_prompt, q_pending, q_outcome,
           q_calls, q_near_vector, q_prompts, q_completions, q_closes, q_used_closed,
           q_retrieved>>
pmVars == <<pm_line, pm_encode_ok, pm_groups, pm_result, pm_pc>>
ixVars == <<ix_file, ix_pos, ix_objects_to_insert, ix_total_processed, ix_parsed, ix_inserts,
            ix_insert_many, ix_pc>>

vars == <<icVars, rcVars, gpVars, qVars, pmVars, ixVars>>

(***************************************************************************)
(* Python str methods                                                      *)
(***************************************************************************)
UPPERCASE == <<"A","B","C","D","E","F","G","H","I","J","K","L","M",
               "N","O","P","Q","R","S","T","U","V","W","X","Y","Z">>
LOWERCASE == <<"a","b","c","d","e","f","g","h","i","j","k","l","m",
               "n","o","p","q","r","s","t","u","v","w","x","y","z">>

\* str.lower() on one character
LowerChar(c) ==
    IF \E i \in 1..Len(UPPERCASE) : UPPERCASE[i] = c
    THEN LOWERCASE[CHOOSE i \in 1..Len(UPPERCASE) : UPPERCASE[i] = c]
    ELSE c

\* str.lower()
Lower(s) == [i \in 1..Len(s) |-> LowerChar(s[i])]

\* str.isspace() on one character (the whitespace str.split() and str.strip() use)
IsSpace(c) == c \in {" ", "\t", "\n", "\r", "\f"}

\* a variant of RStripChar that removes one trailing c only
RStripOneChar(s, c) ==
    IF Len(s) > 0 /\ s[Len(s)] = c THEN SubSeq(s, 1, Len(s) - 1) ELSE s

\* str.rstrip(c) for a one-character argument: every trailing c goes
RECURSIVE RStripChar(_, _)
RStripChar(s, c) ==
    IF Len(s) > 0 /\ s[Len(s)] = c
    THEN RStripChar(SubSeq(s, 1, Len(s) - 1), c)
    ELSE s

RECURSIVE LStrip(_)
LStrip(s) == IF Len(s) > 0 /\ IsSpace(s[1]) THEN LStrip(Tail(s)) ELSE s

RECURSIVE RStrip(_)
RStrip(s) ==
    IF Len(s) > 0 /\ IsSpace(s[Len(s)])
    THEN RStrip(SubSeq(s, 1, Len(s) - 1))
    ELSE s

\* str.strip()
Strip(s) == RStrip(LStrip(s))

\* p occurs in s at index i
MatchAt(s, p, i) ==
    /\ i >= 1
    /\ i + Len(p) - 1 <= Len(s)
    /\ \A k \in 1..Len(p) : s[i + k - 1] = p[k]

\* s.startswith(p)
StartsWith(s, p) == MatchAt(s, p, 1)

\* p in s
Contains(s, p) == \E i \in 1..(Len(s) + 1) : MatchAt(s, p, i)

\* s.replace(old, ""): the non-overlapping occurrences of old, found left to
\* right, are removed; an empty old leaves s as it is
RECURSIVE RemoveAll(_, _)
RemoveAll(s, old) ==
    IF Len(old) = 0 \/ Len(s) = 0 THEN s
    ELSE IF MatchAt(s, old, 1)
         THEN RemoveAll(SubSeq(s, Len(old) + 1, Len(s)), old)
         ELSE <<s[1]>> \o RemoveAll(Tail(s), old)

\* the length of the first run of non-whitespace characters of s
RECURSIVE WordLen(_)
WordLen(s) == IF Len(s) = 0 \/ IsSpace(s[1]) THEN 0 ELSE 1 + WordLen(Tail(s))

\* str.split(): the maximal runs of non-whitespace characters
RECURSIVE Split(_)
Split(s) ==
    LET t == LStrip(s) IN
    IF Len(t) = 0 THEN <<>>
    ELSE <<SubSeq(t, 1, WordLen(t))>> \o Split(SubSeq(t, WordLen(t) + 1, Len(t)))

\* n copies of s
RECURSIVE Repeat(_, _)
Repeat(s, n) == IF n <= 0 THEN <<>> ELSE s \o Repeat(s, n - 1)

(***************************************************************************)
(* Python floats (a distance d is held as 100*d), sorted() and slicing     *)
(***************************************************************************)
Float(v) == [nan |-> FALSE, v |-> v]
NaN == [nan |-> TRUE, v |-> 0]

\* a <= b on floats: false when either is NaN
FloatLeq(a, b) == ~a.nan /\ ~b.nan /\ a.v <= b.v
\* a < b on floats
FloatLt(a, b) == ~a.nan /\ ~b.nan /\ a.v < b.v

\* x put into the sorted s before the first element whose distance is greater
RECURSIVE InsertByDistance(_, _)
InsertByDistance(s, x) ==
    IF Len(s) = 0 THEN <<x>>
    ELSE IF FloatLt(x.distance, s[1].distance) THEN <<x>> \o s
    ELSE <<s[1]>> \o InsertByDistance(Tail(s), x)

\* sorted(s, key=lambda x: x.metadata.distance): ascending and stable.  Both
\* callers pass distances that are not NaN.
RECURSIVE SortedByDistance(_)
SortedByDistance(s) ==
    IF Len(s) = 0 THEN <<>>
    ELSE InsertByDistance(SortedByDistance(SubSeq(s, 1, Len(s) - 1)), s[Len(s)])

\* a variant of SliceTo that never truncates
SliceToAll(s, limit) == s

\* s[:limit]: the first limit elements, or all but the last -limit of them when
\* limit is negative
SliceTo(s, limit) ==
    IF limit >= 0
    THEN SubSeq(s, 1, IF limit < Len(s) THEN limit ELSE Len(s))
    ELSE SubSeq(s, 1, IF Len(s) + limit > 0 THEN Len(s) + limit ELSE 0)

(***************************************************************************)
(* RAGSystem.is_informative_content                                        *)
(***************************************************************************)
reference_phrases ==
    { <<"l","i","k","e">>,
      <<"s","i","m","i","l","a","r"," ","t","o">>,
      <<"s","a","m","e"," ","a","s">> }

MinTokens == 5
MinReferenceTokens == 10

\* a variant of QueryLower that strips a single trailing '?'
QueryLowerStripOne(query) == RStripOneChar(Lower(query), "?")

\* query.lower().rstrip('?')
QueryLower(query) == RStripChar(Lower(query), "?")

\* text_lower.replace(query_lower, "").strip()
CleanedText(text, query) == Strip(RemoveAll(Lower(text), QueryLower(query)))

\* a variant of is_informative_content whose reference rule ignores the token count
IsInformativeNoTokenBound(text, query) ==
    LET text_lower == Lower(text)
        query_lower == QueryLower(query)
        cleaned_text == CleanedText(text, query)
    IN  IF Len(Split(cleaned_text)) < MinTokens THEN FALSE
        ELSE IF StartsWith(text_lower, query_lower) /\ Contains(text, <<"?">>) THEN FALSE
        ELSE IF \E phrase \in reference_phrases : Contains(cleaned_text, phrase) THEN FALSE
        ELSE TRUE

is_informative_content(text, query) ==
    LET text_lower == Lower(text)
        query_lower == QueryLower(query)
        cleaned_text == CleanedText(text, query)
    IN  IF Len(Split(cleaned_text)) < MinTokens THEN FALSE
        ELSE IF StartsWith(text_lower, query_lower) /\ Contains(text, <<"?">>) THEN FALSE
        ELSE IF \E phrase \in reference_phrases :
                   /\ Contains(cleaned_text, phrase)
                   /\ Len(Split(cleaned_text)) < MinReferenceTokens
             THEN FALSE
        ELSE TRUE

\* ---- the texts and queries the filter is applied to ----
MaxFiller == 10

TextHeads ==
    { <<>>,
      <<"a","b">>,
      <<"A","b">>,
      <<"a","b","?">>,
      <<"w"," ","a","b"," ">>,
      <<"a","b","a","b">> }

TextTails ==
    { <<>>,
      <<"?">>,
      <<" ","l","i","k","e">>,
      <<" ","L","i","k","e","?">>,
      <<" ","s","a","m","e"," ","a","s">>,
      <<" ","s","i","m","i","l","a","r","\n","t","o">>,
      <<" ","a","b","?"," ">> }

Texts ==
    { h \o Repeat(<<" ","w">>, k) \o t : h \in TextHeads, k \in 0..MaxFiller, t \in TextTails }

Queries ==
    { <<>>, <<"?">>, <<"a","b">>, <<"A","B">>, <<"a","b","?">>, <<"a","b","?","?">>,
      <<"w">>, <<"?","a","b","?","?","?">> }

InfIdle ==
    /\ ic_text = <<>>
    /\ ic_query = <<>>
    /\ ic_query_lower = <<>>
    /\ ic_cleaned = <<>>
    /\ ic_result = FALSE
    /\ ic_pc = "idle"

InfInit ==
    /\ ic_text \in Texts
    /\ ic_query \in Queries
    /\ ic_query_lower = <<>>
    /\ ic_cleaned = <<>>
    /\ ic_result = FALSE
    /\ ic_pc = "call"

(***************************************************************************)
(* RAGSystem.retrieve_relevant_context, from response.objects on            *)
(***************************************************************************)
initial_limit == 100
DefaultLimit == 7
DefaultDistanceThreshold == 75

\* the list comprehension: the candidates within the threshold and informative,
\* in the response's order
RECURSIVE FilteredResults(_, _, _)
FilteredResults(response, query, distance_threshold) ==
    IF Len(response) = 0 THEN <<>>
    ELSE (IF /\ FloatLeq(response[1].distance, distance_threshold)
             /\ is_informative_content(response[1].content, query)
          THEN <<response[1]>> ELSE <<>>)
         \o FilteredResults(Tail(response), query, distance_threshold)

retrieve_relevant_context(response, query, limit, distance_threshold) ==
    SliceTo(SortedByDistance(FilteredResults(response, query, distance_threshold)), limit)

\* ---- the candidate sets, limits and thresholds retrieval is applied to ----
MaxDocs == 3
MaxLimit == 3
MaxNegLimit == 2

\* an answer of five tokens and a bare comparison of five
DocContents ==
    { <<"w"," ","w"," ","w"," ","w"," ","x">>,
      <<"w"," ","w"," ","w"," ","w"," ","l","i","k","e">> }

DocDistances == { NaN, Float(50), Float(75), Float(80) }

Docs == [content : DocContents, distance : DocDistances]

Responses == UNION { [1..n -> Docs] : n \in 0..MaxDocs }

Limits == ((0 - MaxNegLimit)..MaxLimit) \cup {DefaultLimit}

Thresholds == { Float(DefaultDistanceThreshold), Float(50), NaN }

RetrieveQuery == <<"a","b","?">>

RetIdle ==
    /\ rc_response = <<>>
    /\ rc_query = <<>>
    /\ rc_limit = 0
    /\ rc_threshold = NaN
    /\ rc_result = <<>>
    /\ rc_pc = "idle"

RetInit ==
    /\ rc_response \in Responses
    /\ Len(rc_response) <= initial_limit
    /\ rc_query = RetrieveQuery
    /\ rc_limit \in Limits
    /\ rc_threshold \in Thresholds
    /\ rc_result = <<>>
    /\ rc_pc = "call"

(***************************************************************************)
(* RAGSystem.generate_prompt                                               *)
(***************************************************************************)
\* the three literal pieces of the f-string, each kept whole
PromptHead == <<"Please answer the question based on the following context:\n\nContext:\n">>
PromptQuestion == <<"\n\nQuestion: ">>
PromptTail == <<"\n\nPlease provide a detailed answer using only the information from the given context. The provided context is the Whatsapp chats between Shashank Hegde and Shashin Bhaskar. If the context doesn't contain enough information to answer the question, please state that explicitly.">>

\* sep.join(parts)
RECURSIVE Join(_, _)
Join(sep, parts) ==
    IF Len(parts) = 0 THEN <<>>
    ELSE IF Len(parts) = 1 THEN parts[1]
    ELSE parts[1] \o sep \o Join(sep, Tail(parts))

\* a variant of ContextStr that joins with a single line break
ContextStrSingleNewline(sorted_contexts) ==
    Join(<<"\n">>, [i \in 1..Len(sorted_contexts) |-> sorted_contexts[i].content])

\* "\n\n".join([doc.properties[self.embedding_field] for doc in sorted_contexts])
ContextStr(sorted_contexts) ==
    Join(<<"\n", "\n">>, [i \in 1..Len(sorted_contexts) |-> sorted_contexts[i].content])

generate_prompt(query, context) ==
    LET sorted_contexts == SortedByDistance(context)
        context_str == ContextStr(sorted_contexts)
    IN  PromptHead \o context_str \o PromptQuestion \o query \o PromptTail

\* ---- the queries and retrieved messages prompts are built from ----
MaxContext == 3

PromptContents == { <<"h","i">>, <<"y","o","\n","y","o">>, <<"?">> }
PromptDistances == { Float(0), Float(40) }
PromptDocs == [content : PromptContents, distance : PromptDistances]
PromptContexts == UNION { [1..n -> PromptDocs] : n \in 0..MaxContext }
PromptQueries == { <<>>, <<"h","i">>, <<"W","h","o","?">> }

GpIdle ==
    /\ gp_query = <<>>
    /\ gp_context = <<>>
    /\ gp_sorted = <<>>
    /\ gp_context_str = <<>>
    /\ gp_prompt = <<>>
    /\ gp_pc = "idle"

GpInit ==
    /\ gp_query \in PromptQueries
    /\ gp_context \in PromptContexts
    /\ gp_sorted = <<>>
    /\ gp_context_str = <<>>
    /\ gp_prompt = <<>>
    /\ gp_pc = "call"

(***************************************************************************)
(* WhatsAppChatIndexer.parse_message                                       *)
(***************************************************************************)
DIGITS == <<"0","1","2","3","4","5","6","7","8","9">>

IsDigit(c) == \E i \in 1..Len(DIGITS) : DIGITS[i] = c
DigitVal(c) == (CHOOSE i \in 1..Len(DIGITS) : DIGITS[i] = c) - 1
DigitChar(n) == DIGITS[n + 1]

\* int(s) for a string of decimal digits
RECURSIVE Num(_)
Num(s) == IF Len(s) = 0 THEN 0 ELSE 10 * Num(SubSeq(s, 1, Len(s) - 1)) + DigitVal(s[Len(s)])

\* the character of s at index i, or "" past its end
At(s, i) == IF i \in 1..Len(s) THEN s[i] ELSE ""

\* how many of the characters of s from index i on are digits, up to max of them
RECURSIVE DigitRun(_, _, _)
DigitRun(s, i, max) ==
    IF max > 0 /\ IsDigit(At(s, i)) THEN 1 + DigitRun(s, i + 1, max - 1) ELSE 0

\* how many characters of s from index i on come before the first stop character
RECURSIVE RunUntil(_, _, _)
RunUntil(s, i, stop) ==
    IF i > Len(s) \/ s[i] = stop THEN 0 ELSE 1 + RunUntil(s, i + 1, stop)

NoMatch == [matched |-> FALSE]

\* re.match(pattern, line).groups() for
\*   (\d{1,2}/\d{1,2}/\d{2}),\s(\d{1,2}:\d{2})\s-\s([^:]+):\s(.+)
\* anchored at the start of line.  Each repetition is followed by a character it
\* cannot match, so the greedy choice is the only one: \d{1,2} takes the digits
\* before '/', [^:]+ runs to the first ':', .+ runs to the end of the line.
RegexMatch(line) ==
    LET a  == DigitRun(line, 1, 2)
        p2 == a + 2
        b  == DigitRun(line, p2, 2)
        p3 == p2 + b + 1
        p4 == p3 + 4
        h  == DigitRun(line, p4, 2)
        p5 == p4 + h + 3
        p6 == p5 + 3
        n  == RunUntil(line, p6, ":")
        p7 == p6 + n + 2
        k  == RunUntil(line, p7, "\n")
    IN  IF /\ a >= 1 /\ At(line, a + 1) = "/"
           /\ b >= 1 /\ At(line, p2 + b) = "/"
           /\ IsDigit(At(line, p3)) /\ IsDigit(At(line, p3 + 1))
           /\ At(line, p3 + 2) = ","
           /\ IsSpace(At(line, p3 + 3))
           /\ h >= 1 /\ At(line, p4 + h) = ":"
           /\ IsDigit(At(line, p4 + h + 1)) /\ IsDigit(At(line, p4 + h + 2))
           /\ IsSpace(At(line, p5)) /\ At(line, p5 + 1) = "-" /\ IsSpace(At(line, p5 + 2))
           /\ n >= 1 /\ At(line, p6 + n) = ":"
           /\ IsSpace(At(line, p6 + n + 1))
           /\ k >= 1
        THEN [matched |-> TRUE,
              date    |-> SubSeq(line, 1, p3 + 1),
              time    |-> SubSeq(line, p4, p4 + h + 2),
              sender  |-> SubSeq(line, p6, p6 + n - 1),
              content |-> SubSeq(line, p7, p7 + k - 1)]
        ELSE NoMatch

\* the strptime directives, as the regular expressions _strptime compiles them
\* %m: 1[0-2]|0[1-9]|[1-9]
DirectiveMonth(m) ==
    \/ Len(m) = 2 /\ m[1] = "1" /\ m[2] \in {"0", "1", "2"}
    \/ Len(m) = 2 /\ m[1] = "0" /\ IsDigit(m[2]) /\ m[2] # "0"
    \/ Len(m) = 1 /\ IsDigit(m[1]) /\ m[1] # "0"
\* %d: 3[01]|[12]\d|0[1-9]|[1-9]
DirectiveDay(d) ==
    \/ Len(d) = 2 /\ d[1] = "3" /\ d[2] \in {"0", "1"}
    \/ Len(d) = 2 /\ d[1] \in {"1", "2"} /\ IsDigit(d[2])
    \/ Len(d) = 2 /\ d[1] = "0" /\ IsDigit(d[2]) /\ d[2] # "0"
    \/ Len(d) = 1 /\ IsDigit(d[1]) /\ d[1] # "0"
\* %H: 2[0-3]|[0-1]\d|\d
DirectiveHour(h) ==
    \/ Len(h) = 2 /\ h[1] = "2" /\ h[2] \in {"0", "1", "2", "3"}
    \/ Len(h) = 2 /\ h[1] \in {"0", "1"} /\ IsDigit(h[2])
    \/ Len(h) = 1 /\ IsDigit(h[1])
\* %M on two digits: [0-5]\d (the one-digit alternative leaves a digit unconverted)
DirectiveMinute(mi) ==
    Len(mi) = 2 /\ mi[1] \in {"0", "1", "2", "3", "4", "5"} /\ IsDigit(mi[2])

\* a variant of FullYear with no pivot: every two-digit year is 20yy
FullYearNoPivot(yy) == 2000 + yy

\* %y: 69..99 are 1969..1999, 00..68 are 2000..2068
FullYear(yy) == IF yy >= 69 THEN 1900 + yy ELSE 2000 + yy

IsLeap(y) == y % 4 = 0 /\ (y % 100 # 0 \/ y % 400 = 0)

\* calendar.monthrange: the days of month mo of year y
DaysInMonth(y, mo) ==
    IF mo = 2 THEN (IF IsLeap(y) THEN 29 ELSE 28)
    ELSE IF mo \in {4, 6, 9, 11} THEN 30 ELSE 31

NoTimestamp == [ok |-> FALSE]

\* datetime.strptime(f"{date} {time}", "%m/%d/%y %H:%M") on the two groups: the
\* fields of the datetime, or the ValueError
Strptime(date, time) ==
    LET a  == RunUntil(date, 1, "/")
        b  == RunUntil(date, a + 2, "/")
        m  == SubSeq(date, 1, a)
        d  == SubSeq(date, a + 2, a + 1 + b)
        yy == SubSeq(date, a + b + 3, Len(date))
        h  == RunUntil(time, 1, ":")
        hh == SubSeq(time, 1, h)
        mi == SubSeq(time, h + 2, Len(time))
    IN  IF /\ DirectiveMonth(m) /\ DirectiveDay(d) /\ Len(yy) = 2
           /\ DirectiveHour(hh) /\ DirectiveMinute(mi)
           /\ Num(d) <= DaysInMonth(FullYear(Num(yy)), Num(m))
        THEN [ok |-> TRUE, year |-> FullYear(Num(yy)), month |-> Num(m), day |-> Num(d),
              hour |-> Num(hh), minute |-> Num(mi)]
        ELSE NoTimestamp

Pad2(n) == <<DigitChar(n \div 10), DigitChar(n % 10)>>
Pad4(n) == Pad2(n \div 100) \o Pad2(n % 100)

\* datetime.isoformat() of a datetime with no seconds and no microseconds
IsoFormat(t) ==
    Pad4(t.year) \o <<"-">> \o Pad2(t.month) \o <<"-">> \o Pad2(t.day) \o <<"T">>
    \o Pad2(t.hour) \o <<":">> \o Pad2(t.minute) \o <<":", "0", "0">>

None == [kind |-> "None"]

\* parse_message(line); encode_ok tells whether self.model.encode answers or raises.
\* The embedding stands for the text it was computed from.
parse_message(line, encode_ok) ==
    LET match == RegexMatch(line) IN
    IF match.matched
    THEN LET timestamp == Strptime(match.date, match.time) IN
         IF timestamp.ok /\ encode_ok
         THEN [kind      |-> "record",
               timestamp |-> IsoFormat(timestamp),
               sender    |-> Strip(match.sender),
               content   |-> Strip(match.content),
               embedding |-> match.content]
         ELSE None
    ELSE None

\* ---- the lines parse_message is applied to ----
LinePrefixes == { <<>>, <<" ">> }
LineDates ==
    { <<"1","/","2","/","2","1">>,
      <<"1","2","/","3","1","/","9","9">>,
      <<"2","/","2","9","/","2","0">>,
      <<"2","/","2","9","/","2","1">>,
      <<"1","3","/","1","/","2","1">>,
      <<"0","/","5","/","6","8">>,
      <<"4","/","3","1","/","6","9">>,
      <<"0","1","/","0","2","/","0","0">>,
      <<"1","/","2","/","2","0","2","1">>,
      <<"1","-","2","-","2","1">> }
LineDateEnds == { <<","," ">>, <<",","\t">>, <<",">> }
LineTimes ==
    { <<"3",":","0","4">>,
      <<"2","3",":","5","9">>,
      <<"2","4",":","0","0">>,
      <<"3",":","6","0">>,
      <<"3",":","4">>,
      <<"0","0",":","0","0">> }
LineDashes == { <<" ","-"," ">>, <<"-"," ">> }
LineSenders == { <<"A","l">>, <<" ","A","l"," ","B"," ">>, <<>> }
LineColons == { <<":"," ">>, <<":">> }
LineContents ==
    { <<"h","i">>,
      <<" ","h","i"," ">>,
      <<"a",":"," ","b">>,
      <<>>,
      <<"x","\n","y">> }

Lines ==
    { x \o d \o e \o t \o h \o n \o c \o m :
        x \in LinePrefixes, d \in LineDates, e \in LineDateEnds, t \in LineTimes,
        h \in LineDashes, n \in LineSenders, c \in LineColons, m \in LineContents }

PmIdle ==
    /\ pm_line = <<>>
    /\ pm_encode_ok = TRUE
    /\ pm_groups = NoMatch
    /\ pm_result = None
    /\ pm_pc = "idle"

PmInit ==
    /\ pm_line \in Lines
    /\ pm_encode_ok \in BOOLEAN
    /\ pm_groups = NoMatch
    /\ pm_result = None
    /\ pm_pc = "call"

(***************************************************************************)
(* WhatsAppChatIndexer.index_chat                                          *)
(***************************************************************************)
EncryptionNotice ==
    <<"M","e","s","s","a","g","e","s"," ","a","n","d"," ","c","a","l","l","s"," ",
        "a","r","e"," ","e","n","d","-","t","o","-","e","n","d"," ","e","n","c","r",
        "y","p","t","e","d">>

Skipped == [kind |-> "skipped"]

\* the entry index_chat appends to objects_to_insert for a parsed record
ObjectToInsert(parsed) ==
    [properties |-> [content |-> parsed.content, sender |-> parsed.sender,
                     timestamp |-> parsed.timestamp],
     vector |-> parsed.embedding,
     class |-> "WhatsAppMessage"]

\* `not line or "Messages and calls are end-to-end encrypted" in line`
IsSkippedLine(line) == Len(line) = 0 \/ Contains(line, EncryptionNotice)

\* ---- the chat files index_chat is applied to ----
MaxLines == 3

FileLines ==
    { <<"\n">>,
      <<"1","/","2","/","2","1",","," ","3",":","0","4"," ","-"," ","M","e","s","s",
        "a","g","e","s"," ","a","n","d"," ","c","a","l","l","s"," ","a","r","e"," ",
        "e","n","d","-","t","o","-","e","n","d"," ","e","n","c","r","y","p","t","e",
        "d","."," ","T","a","p","\n">>,
      <<"1","/","2","/","2","1",","," ","3",":","0","5"," ","-"," ","A","l",":"," ",
        "M","e","s","s","a","g","e","s"," ","a","n","d"," ","c","a","l","l","s"," ",
        "a","r","e"," ","e","n","d","-","t","o","-","e","n","d"," ","e","n","c","r",
        "y","p","t","e","d","\n">>,
      <<"1","/","2","/","2","1",","," ","3",":","0","6"," ","-"," ","A","l",":"," ",
        "h","i","\n">>,
      <<" ","1","2","/","3","1","/","9","9",","," ","2","3",":","5","9"," ","-"," ",
        "B","o",":"," ","y","o"," ","\n">>,
      <<"2","/","3","0","/","2","1",","," ","3",":","0","7"," ","-"," ","A","l",":",
        " ","h","i","\n">>,
      <<"a","n","d"," ","m","o","r","e","\n">> }

Files == UNION { [1..n -> FileLines] : n \in 0..MaxLines }

IxIdle ==
    /\ ix_file = <<>>
    /\ ix_pos = 0
    /\ ix_objects_to_insert = <<>>
    /\ ix_total_processed = 0
    /\ ix_parsed = <<>>
    /\ ix_inserts = <<>>
    /\ ix_insert_many = 0
    /\ ix_pc = "idle"

\* index_chat(filepath) has opened the file and stands before the loop
IxInit ==
    /\ ix_file \in Files
    /\ ix_pos = 0
    /\ ix_objects_to_insert = <<>>
    /\ ix_total_processed = 0
    /\ ix_parsed = <<>>
    /\ ix_inserts = <<>>
    /\ ix_insert_many = 0
    /\ ix_pc = "loop"

\* a loop iteration on a blank line or a line holding the encryption notice: continue
IndexSkipLine ==
    /\ ix_pc = "loop"
    /\ ix_pos < Len(ix_file)
    /\ IsSkippedLine(Strip(ix_file[ix_pos + 1]))
    /\ ix_pos' = ix_pos + 1
    /\ ix_parsed' = Append(ix_parsed, Skipped)
    /\ UNCHANGED <<ix_file, ix_objects_to_insert, ix_total_processed, ix_inserts,
                   ix_insert_many, ix_pc>>
    /\ UNCHANGED <<icVars, rcVars, gpVars, qVars, pmVars>>

\* what one iteration does to objects_to_insert, total_processed and the inserts,
\* for the result parsed of parse_message; insert_ok tells whether
\* collection.data.insert answers or raises.  With objects_to_insert not empty
\* and parsed None, building the insert's arguments raises inside the try.
AfterParse(parsed, insert_ok, reset_on_failure) ==
    LET pending == IF parsed.kind = "record"
                   THEN Append(ix_objects_to_insert, ObjectToInsert(parsed))
                   ELSE ix_objects_to_insert
    IN  /\ ix_total_processed' =
               IF parsed.kind = "record" THEN ix_total_processed + 1 ELSE ix_total_processed
        /\ IF Len(pending) >= 1
           THEN /\ ix_inserts' =
                       IF parsed.kind = "record"
                       THEN Append(ix_inserts,
                                   [properties |-> [content |-> parsed.content,
                                                    sender |-> parsed.sender,
                                                    timestamp |-> parsed.timestamp],
                                    vector |-> parsed.embedding,
                                    ok |-> insert_ok])
                       ELSE ix_inserts
                /\ ix_objects_to_insert' =
                       IF reset_on_failure \/ (insert_ok /\ parsed.kind = "record")
                       THEN <<>> ELSE pending
           ELSE /\ ix_inserts' = ix_inserts
                /\ ix_objects_to_insert' = pending

\* a variant of IndexParseLine that empties objects_to_insert inside the try, so
\* that a failed insert leaves the record pending
IndexParseLineKeepsPendingOnFailure ==
    /\ ix_pc = "loop"
    /\ ix_pos < Len(ix_file)
    /\ ~IsSkippedLine(Strip(ix_file[ix_pos + 1]))
    /\ \E encode_ok \in BOOLEAN, insert_ok \in BOOLEAN :
          LET parsed == parse_message(Strip(ix_file[ix_pos + 1]), encode_ok) IN
          /\ ix_parsed' = Append(ix_parsed, parsed)
          /\ AfterParse(parsed, insert_ok, FALSE)
    /\ ix_pos' = ix_pos + 1
    /\ UNCHANGED <<ix_file, ix_insert_many, ix_pc>>
    /\ UNCHANGED <<icVars, rcVars, gpVars, qVars, pmVars>>

\* a loop iteration on any other line: parse_message, the append, and the
\* single-record insert with its except clause
IndexParseLine ==
    /\ ix_pc = "loop"
    /\ ix_pos < Len(ix_file)
    /\ ~IsSkippedLine(Strip(ix_file[ix_pos + 1]))
    /\ \E encode_ok \in BOOLEAN, insert_ok \in BOOLEAN :
          LET parsed == parse_message(Strip(ix_file[ix_pos + 1]), encode_ok) IN
          /\ ix_parsed' = Append(ix_parsed, parsed)
          /\ AfterParse(parsed, insert_ok, TRUE)
    /\ ix_pos' = ix_pos + 1
    /\ UNCHANGED <<ix_file, ix_insert_many, ix_pc>>
    /\ UNCHANGED <<icVars, rcVars, gpVars, qVars, pmVars>>

\* the file is exhausted: `if objects_to_insert:` and the final insert_many,
\* whose failure is caught
IndexFinish ==
    /\ ix_pc = "loop"
    /\ ix_pos = Len(ix_file)
    /\ ix_insert_many' =
           IF Len(ix_objects_to_insert) > 0 THEN ix_insert_many + 1 ELSE ix_insert_many
    /\ ix_pc' = "done"
    /\ UNCHANGED <<ix_file, ix_pos, ix_objects_to_insert, ix_total_processed, ix_parsed,
                   ix_inserts>>
    /\ UNCHANGED <<icVars, rcVars, gpVars, qVars, pmVars>>

(***************************************************************************)
(* RAGSystem.__init__ and RAGSystem.query                                  *)
(***************************************************************************)
NoInformationMessage ==
    <<"I couldn't find any relevant information to answer your question.">>

NoValue == [kind |-> "none", value |-> <<>>]
Returns(v) == [kind |-> "return", value |-> v]
Raises(e) == [kind |-> "raise", value |-> <<e>>]

\* ---- the calls made on one instance, and what the services answer ----
MaxQueries == 2

UserQueries == { <<"a","b","?">>, <<"w">> }
Completions == { <<"y","e","s">>, <<>> }

\* after __init__: the connection is open and no query has been made
QInit ==
    /\ q_pc = "idle"
    /\ q_closed = FALSE
    /\ q_user_query = <<>>
    /\ q_relevant_docs = <<>>
    /\ q_prompt = <<>>
    /\ q_pending = NoValue
    /\ q_outcome = NoValue
    /\ q_calls = 0
    /\ q_near_vector = 0
    /\ q_prompts = 0
    /\ q_completions = 0
    /\ q_closes = 0
    /\ q_used_closed = FALSE
    /\ q_retrieved = FALSE

\* a caller calls query(user_query) on the instance
QueryStart ==
    /\ q_pc \in {"idle", "done"}
    /\ q_calls < MaxQueries
    /\ \E uq \in UserQueries : q_user_query' = uq
    /\ q_pc' = "retrieve"
    /\ q_calls' = q_calls + 1
    /\ q_relevant_docs' = <<>>
    /\ q_prompt' = <<>>
    /\ q_pending' = NoValue
    /\ q_outcome' = NoValue
    /\ q_near_vector' = 0
    /\ q_prompts' = 0
    /\ q_completions' = 0
    /\ q_closes' = 0
    /\ q_retrieved' = FALSE
    /\ UNCHANGED <<q_closed, q_used_closed>>
    /\ UNCHANGED <<icVars, rcVars, gpVars, pmVars, ixVars>>

\* retrieve_relevant_context: self.model.encode raises before the store is queried
RetrieveEmbedderFails ==
    /\ q_pc = "retrieve"
    /\ q_pending' = Raises("EmbedderFailure")
    /\ q_pc' = "finally"
    /\ UNCHANGED <<q_closed, q_user_query, q_relevant_docs, q_prompt, q_outcome, q_calls, q_retrieved,
                   q_near_vector, q_prompts, q_completions, q_closes, q_used_closed>>
    /\ UNCHANGED <<icVars, rcVars, gpVars, pmVars, ixVars>>

\* retrieve_relevant_context: the near_vector query is issued and raises
RetrieveStoreFails ==
    /\ q_pc = "retrieve"
    /\ q_near_vector' = q_near_vector + 1
    /\ q_used_closed' = (q_used_closed \/ q_closed)
    /\ q_pending' = Raises("StoreFailure")
    /\ q_pc' = "finally"
    /\ UNCHANGED <<q_closed, q_user_query, q_relevant_docs, q_prompt, q_outcome, q_calls, q_retrieved,
                   q_prompts, q_completions, q_closes>>
    /\ UNCHANGED <<icVars, rcVars, gpVars, pmVars, ixVars>>

\* a variant of RetrieveReturns without the `if not relevant_docs` return
RetrieveReturnsNoEmptyCheck ==
    /\ q_pc = "retrieve"
    /\ q_retrieved' = TRUE
    /\ q_near_vector' = q_near_vector + 1
    /\ q_used_closed' = (q_used_closed \/ q_closed)
    /\ \E response \in Responses :
          /\ Len(response) <= initial_limit
          /\ q_relevant_docs' = retrieve_relevant_context(response, q_user_query, DefaultLimit,
                                                          Float(DefaultDistanceThreshold))
    /\ q_pc' = "build_prompt"
    /\ UNCHANGED <<q_pending, q_closed, q_user_query, q_prompt, q_outcome, q_calls, q_prompts,
                   q_completions, q_closes>>
    /\ UNCHANGED <<icVars, rcVars, gpVars, pmVars, ixVars>>

\* retrieve_relevant_context returns (default limit and distance_threshold), and
\* query returns the fixed message at once when nothing was retrieved
RetrieveReturns ==
    /\ q_pc = "retrieve"
    /\ q_retrieved' = TRUE
    /\ q_near_vector' = q_near_vector + 1
    /\ q_used_closed' = (q_used_closed \/ q_closed)
    /\ \E response \in Responses :
          /\ Len(response) <= initial_limit
          /\ q_relevant_docs' = retrieve_relevant_context(response, q_user_query, DefaultLimit,
                                                          Float(DefaultDistanceThreshold))
    /\ IF Len(q_relevant_docs') = 0
       THEN /\ q_pending' = Returns(NoInformationMessage)
            /\ q_pc' = "finally"
       ELSE /\ q_pending' = q_pending
            /\ q_pc' = "build_prompt"
    /\ UNCHANGED <<q_closed, q_user_query, q_prompt, q_outcome, q_calls, q_prompts,
                   q_completions, q_closes>>
    /\ UNCHANGED <<icVars, rcVars, gpVars, pmVars, ixVars>>

\* generate_prompt returns and the prompt is printed
BuildPrompt ==
    /\ q_pc = "build_prompt"
    /\ q_prompt' = generate_prompt(q_user_query, q_relevant_docs)
    /\ q_prompts' = q_prompts + 1
    /\ q_pc' = "complete"
    /\ UNCHANGED <<q_closed, q_user_query, q_relevant_docs, q_pending, q_outcome, q_calls, q_retrieved,
                   q_near_vector, q_completions, q_closes, q_used_closed>>
    /\ UNCHANGED <<icVars, rcVars, gpVars, pmVars, ixVars>>

\* generate_prompt returns and print(f"Prompt {prompt}") raises (an encoding or
\* stream error of standard output)
BuildPromptFails ==
    /\ q_pc = "build_prompt"
    /\ q_prompt' = generate_prompt(q_user_query, q_relevant_docs)
    /\ q_prompts' = q_prompts + 1
    /\ q_pending' = Raises("PromptFailure")
    /\ q_pc' = "finally"
    /\ UNCHANGED <<q_closed, q_user_query, q_relevant_docs, q_outcome, q_calls, q_retrieved,
                   q_near_vector, q_completions, q_closes, q_used_closed>>
    /\ UNCHANGED <<icVars, rcVars, gpVars, pmVars, ixVars>>

\* get_completion returns the generated text
Complete ==
    /\ q_pc = "complete"
    /\ q_completions' = q_completions + 1
    /\ \E text \in Completions : q_pending' = Returns(text)
    /\ q_pc' = "finally"
    /\ UNCHANGED <<q_closed, q_user_query, q_relevant_docs, q_prompt, q_outcome, q_calls, q_retrieved,
                   q_near_vector, q_prompts, q_closes, q_used_closed>>
    /\ UNCHANGED <<icVars, rcVars, gpVars, pmVars, ixVars>>

\* a variant of CompleteFails that asks the Completion Client again
CompleteFailsRetries ==
    /\ q_pc = "complete"
    /\ q_completions' = q_completions + 1
    /\ q_pc' = "complete"
    /\ UNCHANGED <<q_closed, q_user_query, q_relevant_docs, q_prompt, q_pending, q_outcome,
                   q_calls, q_retrieved, q_near_vector, q_prompts, q_closes, q_used_closed>>
    /\ UNCHANGED <<icVars, rcVars, gpVars, pmVars, ixVars>>

\* get_completion raises
CompleteFails ==
    /\ q_pc = "complete"
    /\ q_completions' = q_completions + 1
    /\ q_pending' = Raises("CompletionFailure")
    /\ q_pc' = "finally"
    /\ UNCHANGED <<q_closed, q_user_query, q_relevant_docs, q_prompt, q_outcome, q_calls, q_retrieved,
                   q_near_vector, q_prompts, q_closes, q_used_closed>>
    /\ UNCHANGED <<icVars, rcVars, gpVars, pmVars, ixVars>>

\* a variant of Finally that closes the client only when the try block returned
FinallyOnlyOnReturn ==
    /\ q_pc = "finally"
    /\ IF q_pending.kind = "return"
       THEN q_closed' = TRUE /\ q_closes' = q_closes + 1
       ELSE UNCHANGED <<q_closed, q_closes>>
    /\ q_outcome' = q_pending
    /\ q_pc' = "done"
    /\ UNCHANGED <<q_user_query, q_relevant_docs, q_prompt, q_pending, q_calls, q_retrieved,
                   q_near_vector, q_prompts, q_completions, q_used_closed>>
    /\ UNCHANGED <<icVars, rcVars, gpVars, pmVars, ixVars>>

\* the finally block: self.client.close(), then the pending return or raise
\* reaches the caller
Finally ==
    /\ q_pc = "finally"
    /\ q_closed' = TRUE
    /\ q_closes' = q_closes + 1
    /\ q_outcome' = q_pending
    /\ q_pc' = "done"
    /\ UNCHANGED <<q_user_query, q_relevant_docs, q_prompt, q_pending, q_calls, q_retrieved,
                   q_near_vector, q_prompts, q_completions, q_used_closed>>
    /\ UNCHANGED <<icVars, rcVars, gpVars, pmVars, ixVars>>

(***************************************************************************)
(* The specifications: one RAGSystem instance and its calls of query (Spec),  *)
(* index_chat over a chat file, and the pure functions applied to their     *)
(* inputs                                                                  *)
(***************************************************************************)
Init == QInit /\ InfIdle /\ RetIdle /\ GpIdle /\ PmIdle /\ IxIdle

Next ==
    \/ QueryStart
    \/ RetrieveEmbedderFails
    \/ RetrieveStoreFails
    \/ RetrieveReturns
    \/ BuildPrompt
    \/ BuildPromptFails
    \/ Complete
    \/ CompleteFails
    \/ Finally

Spec == Init /\ [][Next]_vars

InitIndex == IxInit /\ InfIdle /\ RetIdle /\ GpIdle /\ QInit /\ PmIdle
NextIndex == IndexSkipLine \/ IndexParseLine \/ IndexFinish
SpecIndex == InitIndex /\ [][NextIndex]_vars

\* one call of is_informative_content(text, query), to its return
IsInformativeCall ==
    /\ ic_pc = "call"
    /\ ic_query_lower' = QueryLower(ic_query)
    /\ ic_cleaned' = CleanedText(ic_text, ic_query)
    /\ ic_result' = is_informative_content(ic_text, ic_query)
    /\ ic_pc' = "returned"
    /\ UNCHANGED <<ic_text, ic_query>>
    /\ UNCHANGED <<rcVars, gpVars, qVars, pmVars, ixVars>>

InitInformative == InfInit /\ RetIdle /\ GpIdle /\ QInit /\ PmIdle /\ IxIdle
NextInformative == IsInformativeCall
SpecInformative == InitInformative /\ [][NextInformative]_vars

\* one call of retrieve_relevant_context on the store's response, to its return
RetrieveCall ==
    /\ rc_pc = "call"
    /\ rc_result' = retrieve_relevant_context(rc_response, rc_query, rc_limit, rc_threshold)
    /\ rc_pc' = "returned"
    /\ UNCHANGED <<rc_response, rc_query, rc_limit, rc_threshold>>
    /\ UNCHANGED <<icVars, gpVars, qVars, pmVars, ixVars>>

InitRetrieve == RetInit /\ InfIdle /\ GpIdle /\ QInit /\ PmIdle /\ IxIdle
NextRetrieve == RetrieveCall
SpecRetrieve == InitRetrieve /\ [][NextRetrieve]_vars

\* one call of generate_prompt(query, context), to its return
GeneratePromptCall ==
    /\ gp_pc = "call"
    /\ gp_sorted' = SortedByDistance(gp_context)
    /\ gp_context_str' = ContextStr(SortedByDistance(gp_context))
    /\ gp_prompt' = generate_prompt(gp_query, gp_context)
    /\ gp_pc' = "returned"
    /\ UNCHANGED <<gp_query, gp_context>>
    /\ UNCHANGED <<icVars, rcVars, qVars, pmVars, ixVars>>

InitPrompt == GpInit /\ InfIdle /\ RetIdle /\ QInit /\ PmIdle /\ IxIdle
NextPrompt == GeneratePromptCall
SpecPrompt == InitPrompt /\ [][NextPrompt]_vars

\* one call of parse_message(line), to its return
ParseMessageCall ==
    /\ pm_pc = "call"
    /\ pm_groups' = RegexMatch(pm_line)
    /\ pm_result' = parse_message(pm_line, pm_encode_ok)
    /\ pm_pc' = "returned"
    /\ UNCHANGED <<pm_line, pm_encode_ok>>
    /\ UNCHANGED <<icVars, rcVars, gpVars, qVars, ixVars>>

InitParse == PmInit /\ InfIdle /\ RetIdle /\ GpIdle /\ QInit /\ IxIdle
NextParse == ParseMessageCall
SpecParse == InitParse /\ [][NextParse]_vars

(***************************************************************************)
(* The claims                                                              *)
(***************************************************************************)
\* s occurs in t as a contiguous run of elements
IsSubstring(s, t) ==
    \E k \in 0..(Len(t) - Len(s)) : \A i \in 1..Len(s) : t[k + i] = s[i]

\* s is in non-decreasing order of distance
IsSortedByDistance(s) ==
    \A i \in 1..Len(s) : \A j \in i..Len(s) : FloatLeq(s[i].distance, s[j].distance)

\* C1: whenever retrieve_relevant_context returned an empty sequence, the call
\* builds no prompt and makes no completion request, and it returns the fixed
\* "I couldn't find any relevant information..." message.
C1_EmptyRetrievalSkipsCompletion ==
    (q_retrieved /\ Len(q_relevant_docs) = 0) =>
        /\ q_prompts = 0
        /\ q_completions = 0
        /\ q_pc \in {"finally", "done"}
        /\ q_pc = "done" => q_outcome = Returns(NoInformationMessage)

\* a call that ended after an empty retrieval
C1_Witness ==
    /\ q_pc = "done"
    /\ q_retrieved
    /\ Len(q_relevant_docs) = 0
    /\ q_near_vector = 1

\* C2: in every terminated call of query the connection is closed, whichever way
\* the call ended: an answer, the empty-result message, or a failure raised in
\* retrieval, in prompt building or in the completion request.
C2_ConnectionClosedOnEveryExit ==
    q_pc = "done" =>
        /\ q_closed
        /\ q_closes = 1
        /\ q_outcome.kind \in {"return", "raise"}

\* a call that ended by raising the completion failure
C2_Witness ==
    /\ q_pc = "done"
    /\ q_outcome = Raises("CompletionFailure")
    /\ q_closed

\* the steps a call has taken are a prefix of RETRIEVE, BUILD_PROMPT, COMPLETE:
\* at most one of each, a completion request only after a non-empty retrieval
\* and a built prompt, and no step repeated after a failure
LinearOrder ==
    /\ q_near_vector <= 1
    /\ q_prompts <= 1
    /\ q_completions <= 1
    /\ q_prompts = 1 => (q_retrieved /\ Len(q_relevant_docs) > 0)
    /\ q_completions = 1 => (q_prompts = 1 /\ q_retrieved /\ Len(q_relevant_docs) > 0)
    /\ q_retrieved => q_near_vector = 1
    /\ q_pc = "done" =>
          /\ q_outcome = Raises("StoreFailure") =>
                 (q_near_vector = 1 /\ ~q_retrieved /\ q_prompts = 0 /\ q_completions = 0)
          /\ q_outcome = Raises("EmbedderFailure") =>
                 (~q_retrieved /\ q_prompts = 0 /\ q_completions = 0)
          /\ q_outcome = Raises("CompletionFailure") => q_completions = 1
          /\ q_outcome.kind = "return" => q_retrieved

\* C8 as stated: the steps of a call are in linear order and the Vector Store is
\* queried EXACTLY once in every call.
C8_OriginalStoreQueriedExactlyOnce ==
    /\ LinearOrder
    /\ q_pc = "done" => q_near_vector = 1

\* C8 amended: the steps of a call are in linear order; the Vector Store is
\* queried at most once, and exactly once unless the Embedder raises before the
\* query is issued; the Completion Client is invoked at most once, only after a
\* non-empty retrieval and a built prompt; a failure in RETRIEVE or COMPLETE
\* reaches the caller with no second attempt of either step.
C8_LinearOrderNoRetry ==
    /\ LinearOrder
    /\ q_pc = "done" =>
          (q_near_vector = IF q_outcome = Raises("EmbedderFailure") THEN 0 ELSE 1)

\* a call that went through every step and returned the answer
C8_Witness ==
    /\ q_pc = "done"
    /\ q_outcome.kind = "return"
    /\ q_near_vector = 1
    /\ q_prompts = 1
    /\ q_completions = 1

\* the retriever's filter passes the candidate: within the threshold, and accepted
\* by is_informative_content
PassesFilter(doc) ==
    /\ ~doc.distance.nan
    /\ ~rc_threshold.nan
    /\ doc.distance.v <= rc_threshold.v
    /\ is_informative_content(doc.content, rc_query)

\* C3 as stated: for EVERY value of limit and distance_threshold the returned
\* sequence is sorted by non-decreasing distance, has length at most limit, and
\* holds only candidates within the threshold that is_informative_content accepts.
C3_OriginalRetrieverOutput ==
    rc_pc = "returned" =>
        /\ IsSortedByDistance(rc_result)
        /\ Len(rc_result) <= rc_limit
        /\ \A i \in 1..Len(rc_result) : PassesFilter(rc_result[i])

\* C3 amended: for every distance_threshold and every limit >= 0 the returned
\* sequence is sorted by non-decreasing distance, has length at most limit, and
\* holds only candidates within the threshold that is_informative_content accepts;
\* for a negative limit the sequence is still sorted and filtered, but its length
\* (the passing candidates less the last -limit) is not bounded by limit.
C3_RetrieverOutput ==
    rc_pc = "returned" =>
        /\ IsSortedByDistance(rc_result)
        /\ rc_limit >= 0 => Len(rc_result) <= rc_limit
        /\ \A i \in 1..Len(rc_result) : PassesFilter(rc_result[i])
        /\ \A i \in 1..Len(rc_result) : \E j \in 1..Len(rc_response) :
               rc_response[j] = rc_result[i]

\* a call that had to sort and truncate: the response is out of order and holds
\* more passing candidates than limit
C3_Witness ==
    /\ rc_pc = "returned"
    /\ rc_limit = 2
    /\ Len(rc_result) = 2
    /\ Len(rc_response) = 3
    /\ \A i \in 1..3 : PassesFilter(rc_response[i])
    /\ ~IsSortedByDistance(rc_response)

\* the number of whitespace-separated tokens of s, counted by their first characters
TokenCount(s) ==
    Cardinality({ i \in 1..Len(s) : ~IsSpace(s[i]) /\ (i = 1 \/ IsSpace(s[i - 1])) })

\* rule 3: the residual has fewer than 5 tokens
RuleShortResidual == TokenCount(CleanedText(ic_text, ic_query)) < 5

\* rule 5: the residual holds a reference phrase and has fewer than 10 tokens
RuleBareReference ==
    /\ \E phrase \in reference_phrases : Contains(CleanedText(ic_text, ic_query), phrase)
    /\ TokenCount(CleanedText(ic_text, ic_query)) < 10

\* rule 4 as the code applies it: lower-cased text against the normalised query
RuleRestatedQuestion ==
    /\ \E i \in 1..Len(ic_text) : ic_text[i] = "?"
    /\ Len(ic_query_lower) <= Len(ic_text)
    /\ \A i \in 1..Len(ic_query_lower) : LowerChar(ic_text[i]) = ic_query_lower[i]

\* rule 4 read on the original text: against the query as given, or against the
\* normalised query
RuleRestatedQuestionOriginalText(q) ==
    /\ \E i \in 1..Len(ic_text) : ic_text[i] = "?"
    /\ Len(q) <= Len(ic_text)
    /\ \A i \in 1..Len(q) : ic_text[i] = q[i]

\* C4 as stated: is_informative_content rejects exactly when rule 3, rule 4 (the
\* ORIGINAL text starts with the query string and contains '?') or rule 5 fires.
\* Either reading of "the query string" is allowed.
C4_OriginalRejectsExactlyByRules ==
    ic_pc = "returned" =>
        \/ ic_result = ~(\/ RuleShortResidual
                         \/ RuleRestatedQuestionOriginalText(ic_query)
                         \/ RuleBareReference)
        \/ ic_result = ~(\/ RuleShortResidual
                         \/ RuleRestatedQuestionOriginalText(ic_query_lower)
                         \/ RuleBareReference)

\* C4 amended: is_informative_content rejects exactly when rule 3, rule 4 (the
\* LOWER-CASED text starts with the normalised query and the text contains '?')
\* or rule 5 fires; otherwise it accepts.
C4_RejectsExactlyByRules ==
    ic_pc = "returned" =>
        ic_result = ~(RuleShortResidual \/ RuleRestatedQuestion \/ RuleBareReference)

\* a call rejected by rule 4 alone, on a text that starts with the query only
\* after lower-casing
C4_Witness ==
    /\ ic_pc = "returned"
    /\ ~ic_result
    /\ RuleRestatedQuestion
    /\ ~RuleShortResidual
    /\ ~RuleBareReference
    /\ ~RuleRestatedQuestionOriginalText(ic_query_lower)

\* C5 as stated: the query is lower-cased and exactly one trailing '?' is removed
\* from it, also when it ends in two or more.
C5_OriginalStripsOneQuestionMark ==
    ic_pc = "returned" =>
        ic_query_lower =
            IF Len(ic_query) > 0 /\ ic_query[Len(ic_query)] = "?"
            THEN SubSeq(Lower(ic_query), 1, Len(ic_query) - 1)
            ELSE Lower(ic_query)

\* C5 amended: the query is lower-cased and EVERY trailing '?' is removed from it
\* (the normalised query is the lower-cased query up to its last character that is
\* not '?'); the residual is the lower-cased text with the non-overlapping
\* occurrences of that normalised query removed, stripped of whitespace.
C5_StripsEveryTrailingQuestionMark ==
    ic_pc = "returned" =>
        LET ql == Lower(ic_query)
            n == Len(ic_query_lower)
        IN  /\ n <= Len(ql)
            /\ \A i \in 1..n : ic_query_lower[i] = ql[i]
            /\ \A i \in (n + 1)..Len(ql) : ql[i] = "?"
            /\ n > 0 => ic_query_lower[n] # "?"
            /\ ic_cleaned = Strip(RemoveAll(Lower(ic_text), ic_query_lower))

\* a call whose query ends in two '?' and whose normalised query was found in the text
C5_Witness ==
    /\ ic_pc = "returned"
    /\ Len(ic_query) >= 3
    /\ ic_query[Len(ic_query)] = "?"
    /\ ic_query[Len(ic_query) - 1] = "?"
    /\ Len(ic_query_lower) > 0
    /\ Contains(Lower(ic_text), ic_query_lower)
    /\ ic_cleaned # Strip(Lower(ic_text))

\* the characters of s from index i to index j are all digits
AllDigits(s, i, j) == \A x \in i..j : IsDigit(At(s, x))

\* line starts with a digits, '/', b digits, '/', two digits, ',', a whitespace,
\* h digits, ':', two digits, a whitespace, '-', a whitespace
HeadFits(line, a, b, h) ==
    /\ AllDigits(line, 1, a)
    /\ At(line, a + 1) = "/"
    /\ AllDigits(line, a + 2, a + b + 1)
    /\ At(line, a + b + 2) = "/"
    /\ AllDigits(line, a + b + 3, a + b + 4)
    /\ At(line, a + b + 5) = ","
    /\ IsSpace(At(line, a + b + 6))
    /\ AllDigits(line, a + b + 7, a + b + h + 6)
    /\ At(line, a + b + h + 7) = ":"
    /\ AllDigits(line, a + b + h + 8, a + b + h + 9)
    /\ IsSpace(At(line, a + b + h + 10))
    /\ At(line, a + b + h + 11) = "-"
    /\ IsSpace(At(line, a + b + h + 12))

\* after a head of hd characters: n characters that are not ':', then ':', a
\* whitespace and k characters of one line, the line ending there
RestFits(line, hd, n, k) ==
    /\ hd + n + 2 + k <= Len(line)
    /\ \A x \in (hd + 1)..(hd + n) : line[x] # ":"
    /\ line[hd + n + 1] = ":"
    /\ IsSpace(line[hd + n + 2])
    /\ \A x \in (hd + n + 3)..(hd + n + 2 + k) : line[x] # "\n"
    /\ At(line, hd + n + 3 + k) \in {"", "\n"}

\* the line matches the parse pattern
MatchesPattern(line) ==
    \E a \in 1..2, b \in 1..2, h \in 1..2 :
        /\ HeadFits(line, a, b, h)
        /\ \E n \in 1..Len(line) : \E k \in 1..Len(line) :
               RestFits(line, a + b + h + 12, n, k)

\* t is s without its leading and trailing whitespace
IsTrimOf(t, s) ==
    /\ Len(t) > 0 => (~IsSpace(t[1]) /\ ~IsSpace(t[Len(t)]))
    /\ \E i \in 0..(Len(s) - Len(t)) :
          /\ \A x \in 1..Len(t) : s[i + x] = t[x]
          /\ \A x \in 1..i : IsSpace(s[x])
          /\ \A x \in (i + Len(t) + 1)..Len(s) : IsSpace(s[x])

\* ts is YYYY-MM-DDTHH:MM:00 for the given fields
TimestampIs(ts, year, month, day, hour, minute) ==
    /\ Len(ts) = 19
    /\ <<ts[5], ts[8], ts[11], ts[14], ts[17], ts[18], ts[19]>>
           = <<"-", "-", "T", ":", ":", "0", "0">>
    /\ Num(SubSeq(ts, 1, 4)) = year
    /\ Num(SubSeq(ts, 6, 7)) = month
    /\ Num(SubSeq(ts, 9, 10)) = day
    /\ Num(SubSeq(ts, 12, 13)) = hour
    /\ Num(SubSeq(ts, 15, 16)) = minute

\* what parse_message owes for a line that fits with these group lengths
RecordFor(line, a, b, h, n, k) ==
    LET hd     == a + b + h + 12
        month  == Num(SubSeq(line, 1, a))
        day    == Num(SubSeq(line, a + 2, a + b + 1))
        yy     == Num(SubSeq(line, a + b + 3, a + b + 4))
        year   == IF yy >= 69 THEN 1900 + yy ELSE 2000 + yy
        hour   == Num(SubSeq(line, a + b + 7, a + b + h + 6))
        minute == Num(SubSeq(line, a + b + h + 8, a + b + h + 9))
        leap   == year % 4 = 0 /\ (year % 100 # 0 \/ year % 400 = 0)
        days   == IF month = 2 THEN (IF leap THEN 29 ELSE 28)
                  ELSE IF month \in {4, 6, 9, 11} THEN 30 ELSE 31
        real   == /\ month \in 1..12
                  /\ day \in 1..days
                  /\ hour \in 0..23
                  /\ minute \in 0..59
    IN  /\ pm_groups.matched
        /\ pm_groups.date = SubSeq(line, 1, a + b + 4)
        /\ pm_groups.time = SubSeq(line, a + b + 7, a + b + h + 9)
        /\ pm_groups.sender = SubSeq(line, hd + 1, hd + n)
        /\ pm_groups.content = SubSeq(line, hd + n + 3, hd + n + 2 + k)
        /\ IF real /\ pm_encode_ok
           THEN /\ pm_result.kind = "record"
                /\ TimestampIs(pm_result.timestamp, year, month, day, hour, minute)
                /\ IsTrimOf(pm_result.sender, pm_groups.sender)
                /\ IsTrimOf(pm_result.content, pm_groups.content)
           ELSE pm_result = None

\* C6 as stated: for ALL lines matching the parse pattern parse_message produces
\* a Message (granting that the embedder answers); non-matching lines yield None.
C6_OriginalEveryMatchingLineParses ==
    (pm_pc = "returned" /\ pm_encode_ok) =>
        IF MatchesPattern(pm_line) THEN pm_result.kind = "record" ELSE pm_result = None

\* C6 amended: for all lines that match the parse pattern at their start and whose
\* date and time groups name a real calendar date and time (month 1..12, a day of
\* that month, hour 0..23, minute 0..59), parse_message, when the embedder
\* answers, produces a Message whose timestamp is that date and time in ISO form
\* (years 69..99 are 19YY, 00..68 are 20YY) and whose sender and content are the
\* captured groups trimmed; a matching line with an impossible date or time, a
\* line whose embedding fails and every non-matching line yield None.
C6_ParseMatchesCapturedGroups ==
    pm_pc = "returned" =>
        /\ ~MatchesPattern(pm_line) => (~pm_groups.matched /\ pm_result = None)
        /\ \A a \in 1..2, b \in 1..2, h \in 1..2 :
               HeadFits(pm_line, a, b, h) =>
                   \A n \in 1..Len(pm_line) : \A k \in 1..Len(pm_line) :
                       RestFits(pm_line, a + b + h + 12, n, k) =>
                           RecordFor(pm_line, a, b, h, n, k)

\* a line of the year 99 parsed to a record whose sender had to be trimmed
C6_Witness ==
    /\ pm_pc = "returned"
    /\ pm_result.kind = "record"
    /\ pm_groups.matched
    /\ SubSeq(pm_groups.date, Len(pm_groups.date) - 1, Len(pm_groups.date)) = <<"9", "9">>
    /\ pm_result.sender # pm_groups.sender
    /\ pm_result.content # pm_groups.content

\* the contents of docs, each but the last followed by a blank line
RECURSIVE BlankLineSeparated(_)
BlankLineSeparated(docs) ==
    IF Len(docs) = 0 THEN <<>>
    ELSE BlankLineSeparated(SubSeq(docs, 1, Len(docs) - 1))
         \o (IF Len(docs) > 1 THEN <<"\n", "\n">> ELSE <<>>)
         \o docs[Len(docs)].content

\* s and t hold the same documents the same number of times
SameDocs(s, t) ==
    /\ Len(s) = Len(t)
    /\ \A d \in PromptDocs :
           Cardinality({i \in 1..Len(s) : s[i] = d}) = Cardinality({i \in 1..Len(t) : t[i] = d})

\* C7: the prompt contains the literal query and the content of every input
\* message; the contents stand in ascending-distance order separated by a blank
\* line; an input already sorted by distance keeps its order.
C7_PromptHoldsQueryAndContents ==
    gp_pc = "returned" =>
        /\ IsSubstring(gp_query, gp_prompt)
        /\ \A i \in 1..Len(gp_context) : IsSubstring(gp_context[i].content, gp_prompt)
        /\ SameDocs(gp_sorted, gp_context)
        /\ IsSortedByDistance(gp_sorted)
        /\ IsSortedByDistance(gp_context) => gp_sorted = gp_context
        /\ gp_context_str = BlankLineSeparated(gp_sorted)
        /\ IsSubstring(gp_context_str, gp_prompt)
        /\ gp_prompt = PromptHead \o gp_context_str \o PromptQuestion \o gp_query \o PromptTail

\* a prompt built from three messages given out of order, two of them at the same
\* distance, and a query that is not empty
C7_Witness ==
    /\ gp_pc = "returned"
    /\ Len(gp_context) = 3
    /\ Len(gp_query) > 0
    /\ ~IsSortedByDistance(gp_context)
    /\ gp_context[2].distance = gp_context[3].distance
    /\ gp_context[2].content # gp_context[3].content

\* the line is empty once stripped, or holds the encryption notice
IsBlankOrNotice(line) ==
    \/ \A i \in 1..Len(line) : IsSpace(line[i])
    \/ IsSubstring(EncryptionNotice, line)

\* the properties of the records among the results, in order
RECURSIVE RecordProperties(_)
RecordProperties(results) ==
    IF Len(results) = 0 THEN <<>>
    ELSE RecordProperties(SubSeq(results, 1, Len(results) - 1))
         \o (IF results[Len(results)].kind = "record"
             THEN <<[content |-> results[Len(results)].content,
                     sender |-> results[Len(results)].sender,
                     timestamp |-> results[Len(results)].timestamp]>>
             ELSE <<>>)

C10_NoQueryOnClosedConnection == ~q_used_closed

=============================================================================
